---- MODULE Spec2Model ----
(***************************************************************************)
(* The websocket dispatch server of pkg/websocket: the service registry,   *)
(* the accept path and the per-connection read/dispatch/respond loop.      *)
(***************************************************************************)
EXTENDS Integers, Sequences, FiniteSets, TLC

(* ------------------------------ bounds --------------------------------- *)
\* identifiers ([3]byte tokens) are drawn from 0..MaxId
MaxId == 1
\* connections that reach ServeHTTP
MaxConns == 2
\* at most this many services are ever registered
MaxServices == 1
\* at most this many methods per ServiceDescription
MaxMethods == 1

Ids == 0..MaxId
Conns == 1..MaxConns
Payloads == {"ping", "unenc"}
\* the message types ReadMessage reports (text, binary)
MessageTypes == {1, 2}
Handlers == {"echo", "reject"}

(* --------------------------- values ------------------------------------ *)
\* the method tables of the registered services: the first k method
\* identifiers, k <= MaxMethods, all served by one kind of handler
MethodSets == {{m \in Ids : m < k} : k \in 0..MaxMethods}
EndpointMaps == UNION {[S -> {h}] : S \in MethodSets, h \in Handlers}

\* *ServiceDescription values handed to RegisterService (never nil)
Descriptions ==
  [isNil : {FALSE}, protocolName : Ids, endpoints : EndpointMaps]

\* the nil *ServiceDescription a map lookup yields for an absent key
NilDescription ==
  [isNil |-> TRUE, protocolName |-> 0, endpoints |-> [i \in {} |-> "echo"]]

\* the services field: a nil map, or an allocated map with its entries
NilMap == [isNil |-> TRUE, entries |-> [i \in {} |-> NilDescription]]
EmptyMap == [isNil |-> FALSE, entries |-> [i \in {} |-> NilDescription]]

\* []byte values on the wire
Malformed == [wf |-> FALSE, srv |-> 0, me |-> 0, data |-> "ping"]
Requests == {Malformed} \cup [wf : {TRUE}, srv : Ids, me : Ids, data : Payloads]
RawBytes(text) == [raw |-> TRUE, text |-> text, srv |-> 0, me |-> 0, data |-> "ping"]
EncodedBytes(s, m, d) == [raw |-> FALSE, text |-> "", srv |-> s, me |-> m, data |-> d]
NoBytes == RawBytes("")

(* --------------------------- state ------------------------------------- *)
VARIABLES
  env,           \* the peers that connect and the messages they send
  services,      \* Server.services
  assigning,     \* the description a map assignment in progress is storing
  regErr,        \* what the last RegisterService call returned
  crashed,       \* the process died of an unrecovered panic
  listen,        \* Serve: "idle", "serving", or "failed" (returned an error)
  pc,            \* per connection: position of ServeHTTP / handleConnection
  messageType, request, srv, me, data, handler, res, response, err,
  closes,        \* per connection: number of conn.Close() calls
  calls,         \* per connection: the calls made in the current iteration
  writes,        \* per connection: the write attempts of the current iteration
  outcome,       \* per connection: how the current iteration ended
  prev,          \* per connection: the error the iteration before it reported
  logged,        \* per connection: what was handed to logger.Log
  usedClosed     \* per connection: an operation was made after Close

locals == <<messageType, request, srv, me, data, handler, res, response, err>>
hist == <<closes, calls, writes, outcome, prev, logged, usedClosed>>
vars == <<env, services, assigning, regErr, crashed, listen, pc, locals, hist>>

(* ------------------ the codec (ProtocolHandler) ------------------------- *)
\* Decode(message) -> (service, method, data, err)
Decode(message) ==
  IF message.wf
    THEN [srv |-> message.srv, me |-> message.me, data |-> message.data, err |-> ""]
    ELSE [srv |-> 0, me |-> 0, data |-> "ping", err |-> "decode error"]

\* Encode(service, method, data) -> (message, err)
Encode(s, m, d) ==
  IF d = "unenc"
    THEN [message |-> NoBytes, err |-> "encode error"]
    ELSE [message |-> EncodedBytes(s, m, d), err |-> ""]

(* ------------------ ServiceDescription ---------------------------------- *)
\* EndpointHandler(me) -> (handler, err)
EndpointHandler(sd, m) ==
  IF sd.isNil THEN [handler |-> "nil", err |-> "unknown service"]
  ELSE IF m \notin DOMAIN sd.endpoints THEN [handler |-> "nil", err |-> "unknown method"]
  ELSE [handler |-> sd.endpoints[m], err |-> ""]

\* handler(data) -> (res, err)
CallHandler(h, d) ==
  IF h = "echo" THEN [res |-> d, err |-> ""]
  ELSE [res |-> "", err |-> IF d = "ping" THEN "rejected ping" ELSE "rejected unenc"]

(* ------------------ Server ---------------------------------------------- *)
\* s.services[key]: a read of a nil map or of an absent key yields nil
MapGet(m, key) ==
  IF ~m.isNil /\ key \in DOMAIN m.entries THEN m.entries[key] ELSE NilDescription

\* s.services[key] = sd on an allocated map
MapPut(m, key, sd) ==
  [isNil |-> FALSE,
   entries |-> [k \in DOMAIN m.entries \cup {key} |->
                  IF k = key THEN sd ELSE m.entries[k]]]

\* NewServer sets protocolHandler and logger and leaves services nil; a Server
\* built with its services map allocated is the other value of the struct
ServerInit ==
  /\ services \in {NilMap, EmptyMap}
  /\ assigning = NilDescription
  /\ regErr = "none"
  /\ crashed = FALSE
  /\ listen = "idle"
  /\ pc = [c \in Conns |-> "new"]
  /\ messageType = [c \in Conns |-> 0]
  /\ request = [c \in Conns |-> NoBytes]
  /\ srv = [c \in Conns |-> 0]
  /\ me = [c \in Conns |-> 0]
  /\ data = [c \in Conns |-> ""]
  /\ handler = [c \in Conns |-> "nil"]
  /\ res = [c \in Conns |-> ""]
  /\ response = [c \in Conns |-> NoBytes]
  /\ err = [c \in Conns |-> ""]
  /\ closes = [c \in Conns |-> 0]
  /\ calls = [c \in Conns |-> <<>>]
  /\ writes = [c \in Conns |-> <<>>]
  /\ outcome = [c \in Conns |-> "none"]
  /\ prev = [c \in Conns |-> "none"]
  /\ logged = [c \in Conns |-> "none"]
  /\ usedClosed = [c \in Conns |-> FALSE]

\* one peer that may send every request of every type, and a composition
\* root that may register every description
Init ==
  /\ env = [clients |-> {1}, requests |-> [c \in Conns |-> Requests],
            types |-> MessageTypes, offered |-> Descriptions]
  /\ ServerInit

\* every peer connects; each sends text messages that are malformed or are
\* for service 0, method 0 (peer 1 with every payload, peer 2 with "ping",
\* further peers malformed only), and the descriptions offered are those of
\* service 0 with method 0
InitMulti ==
  /\ env = [clients |-> Conns,
            requests |-> [c \in Conns |->
                           {rq \in Requests :
                              \/ ~rq.wf
                              \/ /\ rq.srv = 0 /\ rq.me = 0
                                 /\ (c = 1 \/ (c = 2 /\ rq.data = "ping"))}],
            types |-> {1},
            offered |-> {sd \in Descriptions :
                           sd.protocolName = 0 /\ DOMAIN sd.endpoints = {0}}]
  /\ ServerInit

\* RegisterService without the existence test
RegisterService_overwrite(sd) ==
  /\ ~crashed
  /\ ~services.isNil
  /\ MapGet(services, sd.protocolName).isNil
       => Cardinality(DOMAIN services.entries) < MaxServices
  /\ services' = MapPut(services, sd.protocolName, sd)
  /\ regErr' = "nil"
  /\ UNCHANGED <<env, assigning, crashed, listen, pc, locals, hist>>

\* RegisterService: the existence test, then the map assignment, which
\* panics on a nil map
RegisterService(sd) ==
  /\ ~crashed
  /\ MapGet(services, sd.protocolName).isNil
       => Cardinality(DOMAIN services.entries) < MaxServices
  /\ IF ~MapGet(services, sd.protocolName).isNil
       THEN /\ regErr' = "exists"
            /\ UNCHANGED <<services, crashed>>
       ELSE IF services.isNil
         THEN /\ regErr' = "panic"
              /\ crashed' = TRUE
              /\ UNCHANGED services
         ELSE /\ services' = MapPut(services, sd.protocolName, sd)
              /\ regErr' = "nil"
              /\ UNCHANGED crashed
  /\ UNCHANGED <<env, assigning, listen, pc, locals, hist>>

\* Serve: http.ListenAndServe returns the bind error, or serves
Serve ==
  /\ ~crashed
  /\ listen = "idle"
  /\ \E bound \in BOOLEAN : listen' = IF bound THEN "serving" ELSE "failed"
  /\ UNCHANGED <<env, assigning, services, regErr, crashed, pc, locals, hist>>

\* a failed upgrade that ends the serving of the listener
ServeHTTP_fatalUpgrade(c) ==
  /\ ~crashed
  /\ listen = "serving"
  /\ c \in env.clients
  /\ pc[c] = "new"
  /\ \E upgraded \in BOOLEAN :
       IF upgraded
         THEN /\ pc' = [pc EXCEPT ![c] = "read"]
              /\ UNCHANGED <<logged, listen>>
         ELSE /\ pc' = [pc EXCEPT ![c] = "rejected"]
              /\ logged' = [logged EXCEPT ![c] = "upgrade error"]
              /\ listen' = "failed"
  /\ UNCHANGED <<env, assigning, services, regErr, crashed, locals,
                 closes, calls, writes, outcome, prev, usedClosed>>

\* a failed upgrade without the return: the session is started all the same
ServeHTTP_spawnOnFailure(c) ==
  /\ ~crashed
  /\ listen = "serving"
  /\ c \in env.clients
  /\ pc[c] = "new"
  /\ \E upgraded \in BOOLEAN :
       /\ pc' = [pc EXCEPT ![c] = "read"]
       /\ logged' = [logged EXCEPT ![c] = IF upgraded THEN @ ELSE "upgrade error"]
  /\ UNCHANGED <<env, assigning, services, regErr, crashed, listen, locals,
                 closes, calls, writes, outcome, prev, usedClosed>>

\* ServeHTTP: upgrade; on failure log and return, else go handleConnection
ServeHTTP(c) ==
  /\ ~crashed
  /\ listen = "serving"
  /\ c \in env.clients
  /\ pc[c] = "new"
  /\ \E upgraded \in BOOLEAN :
       IF upgraded
         THEN /\ pc' = [pc EXCEPT ![c] = "read"]
              /\ UNCHANGED logged
         ELSE /\ pc' = [pc EXCEPT ![c] = "rejected"]
              /\ logged' = [logged EXCEPT ![c] = "upgrade error"]
  /\ UNCHANGED <<env, assigning, services, regErr, crashed, listen, locals,
                 closes, calls, writes, outcome, prev, usedClosed>>

(* ------------------ handleConnection ------------------------------------ *)
\* the variables of one loop iteration go out of scope
ResetLocals(c) ==
  /\ messageType' = [messageType EXCEPT ![c] = 0]
  /\ request' = [request EXCEPT ![c] = NoBytes]
  /\ srv' = [srv EXCEPT ![c] = 0]
  /\ me' = [me EXCEPT ![c] = 0]
  /\ data' = [data EXCEPT ![c] = ""]
  /\ handler' = [handler EXCEPT ![c] = "nil"]
  /\ res' = [res EXCEPT ![c] = ""]
  /\ response' = [response EXCEPT ![c] = NoBytes]
  /\ err' = [err EXCEPT ![c] = ""]

\* any call on the connection notes whether the connection was closed before
Touch(c) == usedClosed' = [usedClosed EXCEPT ![c] = @ \/ closes[c] > 0]

\* return without conn.Close()
CloseAndReturn_noClose(c) ==
  /\ closes' = closes
  /\ pc' = [pc EXCEPT ![c] = "done"]
  /\ ResetLocals(c)

\* conn.Close() followed by return
CloseAndReturn(c) ==
  /\ closes' = [closes EXCEPT ![c] = @ + 1]
  /\ pc' = [pc EXCEPT ![c] = "done"]
  /\ ResetLocals(c)

\* a write that always sends a text message (websocket.TextMessage)
RecordWrite_text(c, body, ok) ==
  writes' = [writes EXCEPT ![c] = Append(@, [type |-> 1, body |-> body, ok |-> ok])]

\* a write attempt is recorded with the type and body given to WriteMessage
RecordWrite(c, body, ok) ==
  writes' = [writes EXCEPT ![c] =
               Append(@, [type |-> messageType[c], body |-> body, ok |-> ok])]

\* ReadMessage returning on a read error without closing the connection
ReadMessage_noClose(c) ==
  /\ ~crashed
  /\ pc[c] = "read"
  /\ Touch(c)
  /\ \E failed \in BOOLEAN :
       IF failed
         THEN /\ calls' = [calls EXCEPT ![c] = <<"ReadFail">>]
              /\ writes' = [writes EXCEPT ![c] = <<>>]
              /\ pc' = [pc EXCEPT ![c] = "done"]
              /\ ResetLocals(c)
              /\ UNCHANGED <<closes, outcome, prev>>
         ELSE /\ \E mt \in env.types, rq \in env.requests[c] :
                   /\ messageType' = [messageType EXCEPT ![c] = mt]
                   /\ request' = [request EXCEPT ![c] = rq]
              /\ calls' = [calls EXCEPT ![c] = <<"Read">>]
              /\ writes' = [writes EXCEPT ![c] = <<>>]
              /\ pc' = [pc EXCEPT ![c] = "decode"]
              /\ prev' = [prev EXCEPT ![c] =
                            IF outcome[c] \in {"decode", "resolve"}
                              THEN outcome[c] ELSE "none"]
              /\ outcome' = [outcome EXCEPT ![c] = "none"]
              /\ UNCHANGED <<srv, me, data, handler, res, response, err, closes>>
  /\ UNCHANGED <<env, assigning, services, regErr, crashed, listen, logged, usedClosed>>

\* conn.ReadMessage(); on error close and return
ReadMessage(c) ==
  /\ ~crashed
  /\ pc[c] = "read"
  /\ Touch(c)
  /\ \E failed \in BOOLEAN :
       IF failed
         THEN /\ calls' = [calls EXCEPT ![c] = <<"ReadFail", "Close">>]
              /\ writes' = [writes EXCEPT ![c] = <<>>]
              /\ CloseAndReturn(c)
              /\ UNCHANGED <<outcome, prev>>
         ELSE /\ \E mt \in env.types, rq \in env.requests[c] :
                   /\ messageType' = [messageType EXCEPT ![c] = mt]
                   /\ request' = [request EXCEPT ![c] = rq]
              /\ calls' = [calls EXCEPT ![c] = <<"Read">>]
              /\ writes' = [writes EXCEPT ![c] = <<>>]
              /\ pc' = [pc EXCEPT ![c] = "decode"]
              /\ prev' = [prev EXCEPT ![c] =
                            IF outcome[c] \in {"decode", "resolve"}
                              THEN outcome[c] ELSE "none"]
              /\ outcome' = [outcome EXCEPT ![c] = "none"]
              /\ UNCHANGED <<srv, me, data, handler, res, response, err, closes>>
  /\ UNCHANGED <<env, assigning, services, regErr, crashed, listen, logged>>

\* a write whose error is not tested: the loop goes on after a failed write
WriteMessage_ignoreFailure(c, body, kind) ==
  /\ Touch(c)
  /\ \E ok \in BOOLEAN : RecordWrite(c, body, ok)
  /\ calls' = [calls EXCEPT ![c] = Append(@, "Write")]
  /\ pc' = [pc EXCEPT ![c] = "read"]
  /\ outcome' = [outcome EXCEPT ![c] = kind]
  /\ ResetLocals(c)
  /\ UNCHANGED <<env, assigning, services, regErr, crashed, listen, closes, logged, prev>>

\* a write after which the connection is closed whatever the write returned
WriteThenClose(c, body) ==
  /\ Touch(c)
  /\ \E ok \in BOOLEAN : RecordWrite(c, body, ok)
  /\ calls' = [calls EXCEPT ![c] = Append(Append(@, "Write"), "Close")]
  /\ CloseAndReturn(c)
  /\ UNCHANGED <<env, assigning, services, regErr, crashed, listen, outcome, logged, prev>>

\* conn.WriteMessage(messageType, body) and the test of its error: on failure
\* log, close and return; on success go to the top of the loop
WriteMessage(c, body, kind) ==
  /\ Touch(c)
  /\ \E ok \in BOOLEAN :
       /\ RecordWrite(c, body, ok)
       /\ IF ok
            THEN /\ calls' = [calls EXCEPT ![c] = Append(@, "Write")]
                 /\ pc' = [pc EXCEPT ![c] = "read"]
                 /\ outcome' = [outcome EXCEPT ![c] = kind]
                 /\ ResetLocals(c)
                 /\ UNCHANGED <<closes, logged>>
            ELSE /\ calls' = [calls EXCEPT ![c] = Append(Append(@, "Write"), "Close")]
                 /\ logged' = [logged EXCEPT ![c] = "write error"]
                 /\ CloseAndReturn(c)
                 /\ UNCHANGED outcome
  /\ UNCHANGED <<env, assigning, services, regErr, crashed, listen, prev>>

\* s.protocolHandler.Decode(request)
DecodeStep(c) ==
  /\ ~crashed
  /\ pc[c] = "decode"
  /\ LET d == Decode(request[c]) IN
       /\ srv' = [srv EXCEPT ![c] = d.srv]
       /\ me' = [me EXCEPT ![c] = d.me]
       /\ data' = [data EXCEPT ![c] = d.data]
       /\ err' = [err EXCEPT ![c] = d.err]
       /\ pc' = [pc EXCEPT ![c] = IF d.err # "" THEN "decodeErr" ELSE "resolve"]
  /\ calls' = [calls EXCEPT ![c] = Append(@, "Decode")]
  /\ UNCHANGED <<env, assigning, services, regErr, crashed, listen, messageType, request,
                 handler, res, response, closes, writes, outcome, prev, logged, usedClosed>>

\* the decode error handed to the codec's Encode before it is written
WriteDecodeError_encoded(c) ==
  /\ ~crashed
  /\ pc[c] = "decodeErr"
  /\ Touch(c)
  /\ \E ok \in BOOLEAN : RecordWrite(c, Encode(srv[c], me[c], err[c]).message, ok)
  /\ calls' = [calls EXCEPT ![c] = Append(Append(@, "Encode"), "Write")]
  /\ pc' = [pc EXCEPT ![c] = "read"]
  /\ outcome' = [outcome EXCEPT ![c] = "decode"]
  /\ ResetLocals(c)
  /\ UNCHANGED <<env, assigning, services, regErr, crashed, listen, closes, logged, prev>>

\* the decode error is written raw
WriteDecodeError(c) ==
  /\ ~crashed
  /\ pc[c] = "decodeErr"
  /\ WriteMessage(c, RawBytes(err[c]), "decode")

\* the lookup keyed by the method identifier instead of the service identifier
ResolveStep_byMethod(c) ==
  /\ ~crashed
  /\ pc[c] = "resolve"
  /\ LET r == EndpointHandler(MapGet(services, me[c]), me[c]) IN
       /\ handler' = [handler EXCEPT ![c] = r.handler]
       /\ err' = [err EXCEPT ![c] = r.err]
       /\ pc' = [pc EXCEPT ![c] = IF r.err # "" THEN "resolveErr" ELSE "invoke"]
  /\ calls' = [calls EXCEPT ![c] = Append(@, "Resolve")]
  /\ UNCHANGED <<env, assigning, services, regErr, crashed, listen, messageType, request, srv, me,
                 data, res, response, closes, writes, outcome, prev, logged, usedClosed>>

\* s.services[srv].EndpointHandler(me)
ResolveStep(c) ==
  /\ ~crashed
  /\ pc[c] = "resolve"
  /\ LET r == EndpointHandler(MapGet(services, srv[c]), me[c]) IN
       /\ handler' = [handler EXCEPT ![c] = r.handler]
       /\ err' = [err EXCEPT ![c] = r.err]
       /\ pc' = [pc EXCEPT ![c] = IF r.err # "" THEN "resolveErr" ELSE "invoke"]
  /\ calls' = [calls EXCEPT ![c] = Append(@, "Resolve")]
  /\ UNCHANGED <<env, assigning, services, regErr, crashed, listen, messageType, request, srv, me,
                 data, res, response, closes, writes, outcome, prev, logged, usedClosed>>

\* a resolution error treated as fatal to the session
WriteResolveError_close(c) ==
  /\ ~crashed
  /\ pc[c] = "resolveErr"
  /\ WriteThenClose(c, RawBytes(err[c]))

\* the resolution error is written raw
WriteResolveError(c) ==
  /\ ~crashed
  /\ pc[c] = "resolveErr"
  /\ WriteMessage(c, RawBytes(err[c]), "resolve")

\* handler invocations serialised over the sessions: a handler returns only
\* when no other session is in one
InvokeStep_serialized(c) ==
  /\ ~crashed
  /\ pc[c] = "invoke"
  /\ \A d \in Conns \ {c} : pc[d] # "invoke"
  /\ LET r == CallHandler(handler[c], data[c]) IN
       /\ res' = [res EXCEPT ![c] = r.res]
       /\ err' = [err EXCEPT ![c] = r.err]
       /\ pc' = [pc EXCEPT ![c] = IF r.err # "" THEN "handlerErr" ELSE "encode"]
  /\ calls' = [calls EXCEPT ![c] = Append(@, "Handler")]
  /\ UNCHANGED <<env, assigning, services, regErr, crashed, listen, messageType, request, srv, me,
                 data, handler, response, closes, writes, outcome, prev, logged, usedClosed>>

\* handler(data)
InvokeStep(c) ==
  /\ ~crashed
  /\ pc[c] = "invoke"
  /\ LET r == CallHandler(handler[c], data[c]) IN
       /\ res' = [res EXCEPT ![c] = r.res]
       /\ err' = [err EXCEPT ![c] = r.err]
       /\ pc' = [pc EXCEPT ![c] = IF r.err # "" THEN "handlerErr" ELSE "encode"]
  /\ calls' = [calls EXCEPT ![c] = Append(@, "Handler")]
  /\ UNCHANGED <<env, assigning, services, regErr, crashed, listen, messageType, request, srv, me,
                 data, handler, response, closes, writes, outcome, prev, logged, usedClosed>>

\* a fixed failure text written in place of the handler's error
WriteHandlerError_generic(c) ==
  /\ ~crashed
  /\ pc[c] = "handlerErr"
  /\ WriteMessage(c, RawBytes("internal error"), "handler")

\* the handler's error dropped: the loop continues without a write
WriteHandlerError_silent(c) ==
  /\ ~crashed
  /\ pc[c] = "handlerErr"
  /\ pc' = [pc EXCEPT ![c] = "read"]
  /\ outcome' = [outcome EXCEPT ![c] = "handler"]
  /\ ResetLocals(c)
  /\ UNCHANGED <<env, assigning, services, regErr, crashed, listen, closes, calls, writes,
                 prev, logged, usedClosed>>

\* the handler's error is written raw
WriteHandlerError(c) ==
  /\ ~crashed
  /\ pc[c] = "handlerErr"
  /\ WriteMessage(c, RawBytes(err[c]), "handler")

\* Encode given the method identifier and the service identifier in each
\* other's place
EncodeStep_swapped(c) ==
  /\ ~crashed
  /\ pc[c] = "encode"
  /\ LET r == Encode(me[c], srv[c], res[c]) IN
       /\ response' = [response EXCEPT ![c] = r.message]
       /\ err' = [err EXCEPT ![c] = r.err]
       /\ pc' = [pc EXCEPT ![c] = IF r.err # "" THEN "encodeErr" ELSE "respond"]
  /\ calls' = [calls EXCEPT ![c] = Append(@, "Encode")]
  /\ UNCHANGED <<env, assigning, services, regErr, crashed, listen, messageType, request, srv, me,
                 data, handler, res, closes, writes, outcome, prev, logged, usedClosed>>

\* s.protocolHandler.Encode(srv, me, res)
EncodeStep(c) ==
  /\ ~crashed
  /\ pc[c] = "encode"
  /\ LET r == Encode(srv[c], me[c], res[c]) IN
       /\ response' = [response EXCEPT ![c] = r.message]
       /\ err' = [err EXCEPT ![c] = r.err]
       /\ pc' = [pc EXCEPT ![c] = IF r.err # "" THEN "encodeErr" ELSE "respond"]
  /\ calls' = [calls EXCEPT ![c] = Append(@, "Encode")]
  /\ UNCHANGED <<env, assigning, services, regErr, crashed, listen, messageType, request, srv, me,
                 data, handler, res, closes, writes, outcome, prev, logged, usedClosed>>

\* the encode error written without the continue: the loop body goes on to
\* the write of the response
WriteEncodeError_fallthrough(c) ==
  /\ ~crashed
  /\ pc[c] = "encodeErr"
  /\ Touch(c)
  /\ \E ok \in BOOLEAN :
       /\ RecordWrite(c, RawBytes(err[c]), ok)
       /\ IF ok
            THEN /\ calls' = [calls EXCEPT ![c] = Append(@, "Write")]
                 /\ pc' = [pc EXCEPT ![c] = "respond"]
                 /\ UNCHANGED <<locals, closes, logged>>
            ELSE /\ calls' = [calls EXCEPT ![c] = Append(Append(@, "Write"), "Close")]
                 /\ logged' = [logged EXCEPT ![c] = "write error"]
                 /\ CloseAndReturn(c)
  /\ UNCHANGED <<env, assigning, services, regErr, crashed, listen, outcome, prev>>

\* an encode error treated as fatal to the session
WriteEncodeError_close(c) ==
  /\ ~crashed
  /\ pc[c] = "encodeErr"
  /\ WriteThenClose(c, RawBytes(err[c]))

\* the encode error is written raw
WriteEncodeError(c) ==
  /\ ~crashed
  /\ pc[c] = "encodeErr"
  /\ WriteMessage(c, RawBytes(err[c]), "encode")

\* the failed write of the response closes the connection without the return
WriteResponse_noReturn(c) ==
  /\ ~crashed
  /\ pc[c] = "respond"
  /\ Touch(c)
  /\ \E ok \in BOOLEAN :
       /\ RecordWrite(c, response[c], ok)
       /\ IF ok
            THEN /\ calls' = [calls EXCEPT ![c] = Append(@, "Write")]
                 /\ outcome' = [outcome EXCEPT ![c] = "ok"]
                 /\ UNCHANGED <<closes, logged>>
            ELSE /\ calls' = [calls EXCEPT ![c] = Append(Append(@, "Write"), "Close")]
                 /\ logged' = [logged EXCEPT ![c] = "write error"]
                 /\ closes' = [closes EXCEPT ![c] = @ + 1]
                 /\ UNCHANGED outcome
  /\ pc' = [pc EXCEPT ![c] = "read"]
  /\ ResetLocals(c)
  /\ UNCHANGED <<env, assigning, services, regErr, crashed, listen, prev>>

\* the encoded response is written
WriteResponse(c) ==
  /\ ~crashed
  /\ pc[c] = "respond"
  /\ WriteMessage(c, response[c], "ok")

handleConnection(c) ==
  \/ ReadMessage(c)
  \/ DecodeStep(c)
  \/ WriteDecodeError(c)
  \/ ResolveStep(c)
  \/ WriteResolveError(c)
  \/ InvokeStep(c)
  \/ WriteHandlerError(c)
  \/ EncodeStep(c)
  \/ WriteEncodeError(c)
  \/ WriteResponse(c)

Next ==
  \/ \E sd \in env.offered : RegisterService(sd)
  \/ Serve
  \/ \E c \in Conns : ServeHTTP(c)
  \/ \E c \in Conns : handleConnection(c)

Spec == Init /\ [][Next]_vars

SpecMulti == InitMulti /\ [][Next]_vars

\* the steps of a session between the read of a message and the write for
\* it: Decode, resolution, the handler, Encode and the writes all return
Proceed(c) == pc[c] # "read" /\ handleConnection(c)

\* s.services[sd.protocolName] = sd begins: the existence test has passed
\* and the write of the allocated map is under way
BeginAssign(sd) ==
  /\ ~crashed
  /\ assigning = NilDescription
  /\ ~services.isNil
  /\ MapGet(services, sd.protocolName).isNil
  /\ Cardinality(DOMAIN services.entries) < MaxServices
  /\ assigning' = sd
  /\ UNCHANGED <<env, services, regErr, crashed, listen, pc, locals, hist>>

\* the assignment completes and RegisterService returns nil
EndAssign ==
  /\ ~crashed
  /\ assigning # NilDescription
  /\ services' = MapPut(services, assigning.protocolName, assigning)
  /\ regErr' = "nil"
  /\ assigning' = NilDescription
  /\ UNCHANGED <<env, crashed, listen, pc, locals, hist>>

\* s.services[srv] read by a session while the map is being written, with
\* no lock between the two goroutines: a data race. The runtime stops the
\* process (fatal error: concurrent map read and map write), or the read
\* finds the entry being stored; ResolveStep is the read that misses it.
ResolveRacing(c) ==
  /\ ~crashed
  /\ pc[c] = "resolve"
  /\ assigning # NilDescription
  /\ \/ /\ crashed' = TRUE
        /\ UNCHANGED <<pc, handler, err, calls>>
     \/ /\ LET during == MapPut(services, assigning.protocolName, assigning)
                r == EndpointHandler(MapGet(during, srv[c]), me[c]) IN
             /\ handler' = [handler EXCEPT ![c] = r.handler]
             /\ err' = [err EXCEPT ![c] = r.err]
             /\ pc' = [pc EXCEPT ![c] = IF r.err # "" THEN "resolveErr" ELSE "invoke"]
        /\ calls' = [calls EXCEPT ![c] = Append(@, "Resolve")]
        /\ UNCHANGED crashed
  /\ UNCHANGED <<env, services, assigning, regErr, listen, messageType, request, srv, me,
                 data, res, response, closes, writes, outcome, prev, logged, usedClosed>>

\* the steps of the server with the map assignment of RegisterService taken
\* as what it is, a write that other goroutines can run across; the
\* composition root makes one RegisterService call at a time
NextRace ==
  \/ \E sd \in env.offered : assigning = NilDescription /\ RegisterService(sd)
  \/ \E sd \in env.offered : BeginAssign(sd)
  \/ EndAssign
  \/ Serve
  \/ \E c \in Conns : ServeHTTP(c)
  \/ \E c \in Conns : handleConnection(c)
  \/ \E c \in Conns : ResolveRacing(c)

SpecRace == Init /\ [][NextRace]_vars

\* the goroutine of a session is scheduled whenever it can run; only
\* ReadMessage may block for ever
SpecFair == Init /\ [][Next]_vars /\ \A c \in Conns : WF_vars(Proceed(c))

TypeOK ==
  /\ services.isNil \in BOOLEAN
  /\ DOMAIN services.entries \subseteq Ids
  /\ \A k \in DOMAIN services.entries : services.entries[k] \in Descriptions
  /\ assigning \in Descriptions \cup {NilDescription}
  /\ regErr \in {"none", "nil", "exists", "panic"}
  /\ pc \in [Conns -> {"new", "rejected", "read", "decode", "decodeErr", "resolve",
                       "resolveErr", "invoke", "handlerErr", "encode", "encodeErr",
                       "respond", "done"}]
  /\ closes \in [Conns -> 0..1]
  /\ prev \in [Conns -> {"none", "decode", "resolve"}]

(* ------------------------------ claims ---------------------------------- *)
Registered(name) == name \in DOMAIN services.entries

\* C1: RegisterService with a service identifier that is already registered
\* returns the "already exists" error and leaves the registry as it was: the
\* identifier still maps to the first description, and each of its methods
\* still resolves to the first registration's handler.
C1_DuplicateRejected ==
  [][\A sd \in Descriptions :
       (RegisterService(sd) /\ Registered(sd.protocolName))
         => /\ regErr' = "exists"
            /\ services' = services
            /\ MapGet(services', sd.protocolName) = services.entries[sd.protocolName]
            /\ \A m \in Ids :
                 EndpointHandler(MapGet(services', sd.protocolName), m)
                   = EndpointHandler(services.entries[sd.protocolName], m)]_vars

\* a duplicate registration was refused
C1_Witness == regErr = "exists" /\ \E k \in Ids : Registered(k)

\* C2: on a Server from NewServer (services is nil), RegisterService with an
\* unregistered identifier completes normally, returns no error, and the
\* registry then maps the identifier to the description, other entries
\* unchanged.
C2_RegisterOnNewServer ==
  [][\A sd \in Descriptions :
       (RegisterService(sd) /\ services = NilMap)
         => /\ ~crashed'
            /\ regErr' = "nil"
            /\ MapGet(services', sd.protocolName) = sd
            /\ \A k \in Ids \ {sd.protocolName} :
                 MapGet(services', k) = MapGet(services, k)]_vars

Last(q) == q[Len(q)]
Times(q, x) == Cardinality({i \in 1..Len(q) : q[i] = x})
Open(c) == closes[c] = 0

\* a step of an iteration on connection c that meets no failure goes on to
\* the next stage with the values the code computes
Dispatched(c) ==
  /\ (DecodeStep(c) /\ request[c].wf)
       => /\ pc'[c] = "resolve"
          /\ <<srv'[c], me'[c], data'[c]>> = <<request[c].srv, request[c].me, request[c].data>>
  /\ (ResolveStep(c) /\ Registered(srv[c])
        /\ me[c] \in DOMAIN MapGet(services, srv[c]).endpoints)
       => /\ pc'[c] = "invoke"
          /\ handler'[c] = services.entries[srv[c]].endpoints[me[c]]
  /\ (InvokeStep(c) /\ handler[c] = "echo")
       => /\ pc'[c] = "encode"
          /\ res'[c] = data[c]
  /\ (EncodeStep(c) /\ res[c] # "unenc")
       => /\ pc'[c] = "respond"
          /\ response'[c] = EncodedBytes(srv[c], me[c], res[c])
  /\ WriteResponse(c)
       => /\ Last(writes'[c]).body = response[c]
          /\ Last(writes'[c]).ok
               => /\ outcome'[c] = "ok"
                  /\ pc'[c] = "read"
                  /\ Open(c)'

\* the iteration that just ended on connection c answered its message
Answered(c) ==
  /\ Open(c)
  /\ calls[c] = <<"Read", "Decode", "Resolve", "Handler", "Encode", "Write">>
  /\ Len(writes[c]) = 1
  /\ ~writes[c][1].body.raw
  /\ writes[c][1].ok

\* once the loop has returned nothing more is done on the connection
Terminal(c) ==
  pc[c] = "done"
    => /\ pc'[c] = "done"
       /\ closes'[c] = closes[c]
       /\ calls'[c] = calls[c]
       /\ writes'[c] = writes[c]

C5_DecodeErrorRecovered ==
  /\ [][\A c \in Conns :
          /\ (DecodeStep(c) /\ ~request[c].wf)
               => /\ pc'[c] = "decodeErr"
                  /\ err'[c] = Decode(request[c]).err
          /\ WriteDecodeError(c)
               => /\ ~request[c].wf
                  /\ Len(writes'[c]) = 1
                  /\ writes'[c][1].body = RawBytes(Decode(request[c]).err)
                  /\ Times(calls'[c], "Encode") = 0
                  /\ Times(calls'[c], "Write") = 1
                  /\ writes'[c][1].ok
                       => /\ Open(c)'
                          /\ pc'[c] = "read"
                          /\ outcome'[c] = "decode"
          /\ prev[c] = "decode" => Dispatched(c)]_vars
  /\ [](\A c \in Conns :
          /\ (outcome[c] = "decode" /\ pc[c] = "read")
               => calls[c] = <<"Read", "Decode", "Write">> /\ Len(writes[c]) = 1
          /\ (prev[c] = "decode" /\ outcome[c] = "ok" /\ pc[c] = "read") => Answered(c))

\* a session answered the message that followed a malformed one
C5_Witness ==
  \E c \in Conns :
    prev[c] = "decode" /\ outcome[c] = "ok" /\ pc[c] = "read" /\ Answered(c)

\* C6: when the handler returns an error the session writes that error
\* value raw, does not call Encode, stays open and reads again.
C6_HandlerErrorReported ==
  [][\A c \in Conns :
       /\ (InvokeStep(c) /\ CallHandler(handler[c], data[c]).err # "")
            => /\ pc'[c] = "handlerErr"
               /\ err'[c] = CallHandler(handler[c], data[c]).err
       /\ WriteHandlerError(c)
            => /\ Len(writes'[c]) = 1
               /\ writes'[c][1].body = RawBytes(CallHandler(handler[c], data[c]).err)
               /\ Times(calls'[c], "Encode") = 0
               /\ writes'[c][1].ok
                    => /\ Open(c)'
                       /\ pc'[c] = "read"
                       /\ outcome'[c] = "handler"]_vars

\* a handler's error was reported and the session is reading again
C6_Witness ==
  \E c \in Conns :
    /\ outcome[c] = "handler" /\ pc[c] = "read" /\ Open(c)
    /\ writes[c] = <<[type |-> 2, body |-> RawBytes("rejected unenc"), ok |-> TRUE]>>

\* C7: when Encode fails after the handler succeeded the session writes the
\* encode error raw, without a second call of Encode and without any other
\* write for the message, stays open and reads again.
C7_EncodeErrorReported ==
  /\ [][\A c \in Conns :
          /\ (EncodeStep(c) /\ Encode(srv[c], me[c], res[c]).err # "")
               => /\ pc'[c] = "encodeErr"
                  /\ err'[c] = Encode(srv[c], me[c], res[c]).err
          /\ WriteEncodeError(c)
               => /\ Len(writes'[c]) = 1
                  /\ writes'[c][1].body = RawBytes(Encode(srv[c], me[c], res[c]).err)
                  /\ Times(calls'[c], "Encode") = 1
                  /\ Times(calls'[c], "Handler") = 1
                  /\ writes'[c][1].ok
                       => /\ Open(c)'
                          /\ pc'[c] = "read"
                          /\ outcome'[c] = "encode"]_vars
  /\ [](\A c \in Conns :
          (outcome[c] = "encode" /\ pc[c] = "read")
            => /\ Len(writes[c]) = 1
               /\ calls[c] = <<"Read", "Decode", "Resolve", "Handler", "Encode", "Write">>)

\* an encode error was reported and the session is reading again
C7_Witness ==
  \E c \in Conns :
    /\ outcome[c] = "encode" /\ pc[c] = "read" /\ Open(c)
    /\ writes[c][1].body = RawBytes("encode error")

\* C8: when the write of the encoded response fails the session closes the
\* connection and performs no further read, dispatch or write on it.
C8_ResponseWriteFailureCloses ==
  /\ [][\A c \in Conns :
          /\ WriteResponse(c)
               => /\ Last(writes'[c]).body = response[c]
                  /\ ~Last(writes'[c]).ok
                       => /\ closes'[c] = closes[c] + 1
                          /\ pc'[c] = "done"
          /\ Terminal(c)]_vars
  /\ [](\A c \in Conns : ~usedClosed[c] /\ (~Open(c) => pc[c] = "done"))

\* the write of an encoded response failed and the session ended
C8_Witness ==
  \E c \in Conns :
    /\ pc[c] = "done" /\ closes[c] = 1
    /\ writes[c] # <<>>
    /\ ~Last(writes[c]).body.raw
    /\ ~Last(writes[c]).ok

\* C9: when the transport read fails the session closes the connection and
\* stops, with no Decode, handler, Encode or write in that iteration.
C9_ReadFailureCloses ==
  /\ [][\A c \in Conns :
          /\ ReadMessage(c)
               => \/ /\ calls'[c] = <<"Read">>
                     /\ pc'[c] = "decode"
                     /\ closes'[c] = closes[c]
                  \/ /\ calls'[c] = <<"ReadFail", "Close">>
                     /\ pc'[c] = "done"
                     /\ closes'[c] = closes[c] + 1
                     /\ writes'[c] = <<>>
          /\ (pc[c] = "done" /\ calls[c][1] = "ReadFail") => Terminal(c)]_vars
  /\ [](\A c \in Conns :
          (calls[c] # <<>> /\ calls[c][1] = "ReadFail")
            => /\ calls[c] = <<"ReadFail", "Close">>
               /\ pc[c] = "done"
               /\ closes[c] = 1
               /\ writes[c] = <<>>)

\* a read failed after the session had reported an error on the connection
C9_Witness ==
  \E c \in Conns :
    calls[c] = <<"ReadFail", "Close">> /\ outcome[c] = "handler" /\ pc[c] = "done"

\* the four writes of a raw error response
RawErrorWrite(c) ==
  WriteDecodeError(c) \/ WriteResolveError(c) \/ WriteHandlerError(c) \/ WriteEncodeError(c)

\* C10: a failed write of a raw error response (for a decode, resolve,
\* handler or encode failure) is terminal like a failed write of an encoded
\* response: the session closes the connection and reads no more.
C10_RawWriteFailureCloses ==
  [][\A c \in Conns :
       /\ (RawErrorWrite(c) /\ ~Last(writes'[c]).ok)
            => /\ Last(writes'[c]).body = RawBytes(err[c])
               /\ closes'[c] = closes[c] + 1
               /\ pc'[c] = "done"
               /\ logged'[c] = "write error"
       /\ (pc[c] = "done" /\ writes[c] # <<>> /\ Last(writes[c]).body.raw)
            => Terminal(c) /\ ~ENABLED ReadMessage(c)]_vars

\* the write of a raw error response failed and the session ended
C10_Witness ==
  \E c \in Conns :
    /\ pc[c] = "done" /\ closes[c] = 1
    /\ writes[c] # <<>>
    /\ Last(writes[c]).body.raw
    /\ ~Last(writes[c]).ok

\* what the session owes the peer for a request that meets no failure: the
\* codec's Encode of the decoded identifiers and of the result of handler h
Reply(rq, h) ==
  Encode(Decode(rq).srv, Decode(rq).me, CallHandler(h, Decode(rq).data).res).message

\* C11: for a message on which Decode, resolution, the handler and Encode
\* all succeed the session writes exactly one response: Encode of the
\* service and method identifiers Decode returned and of the result the
\* resolved handler returned for the decoded payload (an echo handler's
\* response carries the request's payload).
C11_ResponseIsEncodedResult ==
  /\ [](\A c \in Conns :
          pc[c] = "respond"
            => /\ handler[c] = EndpointHandler(MapGet(services, Decode(request[c]).srv),
                                               Decode(request[c]).me).handler
               /\ handler[c] \in Handlers
               /\ response[c] = Reply(request[c], handler[c])
               /\ ~response[c].raw
               /\ handler[c] = "echo" => response[c].data = request[c].data
               /\ writes[c] = <<>>)
  /\ [][\A c \in Conns :
          WriteResponse(c)
            => /\ Len(writes'[c]) = 1
               /\ writes'[c][1].body = Reply(request[c], handler[c])
               /\ Times(calls'[c], "Write") = 1]_vars
  /\ [](\A c \in Conns :
          (outcome[c] = "ok" /\ pc[c] = "read") => Answered(c))

\* a request for service 1, method 0 was answered with its own payload
C11_Witness ==
  \E c \in Conns :
    /\ outcome[c] = "ok" /\ pc[c] = "read"
    /\ writes[c] = <<[type |-> 1, body |-> EncodedBytes(1, 0, "ping"), ok |-> TRUE]>>

\* the positions of a running session
LoopPcs == {"read", "decode", "decodeErr", "resolve", "resolveErr", "invoke",
            "handlerErr", "encode", "encodeErr", "respond"}

\* everything a session holds for connection c
SessionState(c) ==
  <<pc[c], messageType[c], request[c], srv[c], me[c], data[c], handler[c], res[c],
    response[c], err[c], closes[c], calls[c], writes[c], outcome[c], prev[c],
    logged[c], usedClosed[c]>>

\* C12: Serve returns an error only when the bind fails; no failure on a
\* connection (upgrade, read, write, decode, resolve, handler, encode) makes
\* it return or stops the server from accepting further connections.
C12_OnlyBindErrorsReturn ==
  /\ [][/\ listen' = "failed" => (listen = "failed" \/ (listen = "idle" /\ Serve))
        /\ listen = "serving" => listen' = "serving"
        /\ \A c \in Conns :
             (ServeHTTP(c) \/ handleConnection(c))
               => listen' = listen /\ crashed' = crashed]_vars
  /\ [](\A d \in Conns :
          (listen = "serving" /\ ~crashed /\ d \in env.clients /\ pc[d] = "new")
            => ENABLED ServeHTTP(d))

\* one connection's upgrade failed, another's session ended on a failed
\* write, and the server still serves
C12_Witness ==
  \E c, d \in Conns :
    /\ pc[c] = "done" /\ logged[c] = "write error"
    /\ pc[d] = "rejected"
    /\ listen = "serving"

\* C13: sessions are independent: a handler that does not return blocks
\* only its own session, and no error or transport failure of one session
\* closes or stalls another, which goes on reading and answering.
C13_SessionsIndependent ==
  /\ [][\A c, d \in Conns :
          (c # d /\ handleConnection(c)) => SessionState(d)' = SessionState(d)]_vars
  /\ [](\A d \in Conns :
          ENABLED handleConnection(d) <=> (~crashed /\ pc[d] \in LoopPcs))

\* one session is inside a handler while another has answered a message and
\* is reading again
C13_Witness ==
  \E c, d \in Conns :
    /\ pc[c] = "invoke"
    /\ pc[d] = "read" /\ outcome[d] = "ok" /\ Answered(d)

\* C16: every upgraded connection gets one session and a connection whose
\* upgrade failed gets none; a connection is read, written and closed only
\* by its own session, not by another session or by the accept path.
C16_OneSessionPerConnection ==
  /\ [][\A c \in Conns :
          /\ ServeHTTP(c)
               => /\ pc[c] = "new"
                  /\ \/ pc'[c] = "read" /\ logged'[c] = "none"
                     \/ pc'[c] = "rejected" /\ logged'[c] = "upgrade error"
                  /\ <<closes', calls', writes'>> = <<closes, calls, writes>>
          /\ pc[c] = "rejected" => pc'[c] = "rejected"
          /\ (pc[c] \in LoopPcs \cup {"done"}) => pc'[c] \in LoopPcs \cup {"done"}
          /\ handleConnection(c)
               => \A d \in Conns \ {c} :
                    <<closes'[d], calls'[d], writes'[d]>> = <<closes[d], calls[d], writes[d]>>]_vars
  /\ [](\A c \in Conns :
          /\ pc[c] \in {"new", "rejected"}
               => calls[c] = <<>> /\ writes[c] = <<>> /\ closes[c] = 0
          /\ logged[c] = "upgrade error" <=> pc[c] = "rejected")

\* one connection was refused and another is served by its session
C16_Witness ==
  \E c, d \in Conns :
    /\ pc[c] = "rejected" /\ calls[c] = <<>>
    /\ pc[d] = "read" /\ outcome[d] = "ok" /\ Answered(d)

\* the outcomes of an iteration that reported an error to the peer
ErrorOutcomes == {"decode", "resolve", "handler", "encode"}

\* the positions between the read of a message and the write for it
BusyPcs == LoopPcs \ {"read"}

\* C15: a session is closed only if a transport read or a transport write
\* on its connection failed; decode, resolution, handler and encode
\* failures whose error writes succeed never close it.
C15_ClosedOnlyOnTransportFailure ==
  /\ [](\A c \in Conns :
          /\ ~Open(c)
               => \/ calls[c] = <<"ReadFail", "Close">>
                  \/ writes[c] # <<>> /\ ~Last(writes[c]).ok
          /\ (pc[c] = "read" /\ outcome[c] \in ErrorOutcomes) => Open(c))
  /\ [][\A c \in Conns :
          closes'[c] # closes[c]
            => \/ ReadMessage(c) /\ calls'[c] = <<"ReadFail", "Close">>
               \/ /\ Len(writes'[c]) = Len(writes[c]) + 1
                  /\ ~Last(writes'[c]).ok]_vars

\* two messages in a row failed, in resolution and then in the handler, and
\* the session is open and reading
C15_Witness ==
  \E c \in Conns :
    /\ prev[c] = "resolve" /\ outcome[c] = "handler"
    /\ pc[c] = "read" /\ Open(c)
    /\ Last(writes[c]).ok

\* C18: each message read causes exactly one write attempt, the encoded
\* response or one raw error, made before the next message is read; the
\* write attempts never outnumber the messages read.
C18_OneWritePerMessage ==
  /\ [](\A c \in Conns :
          /\ Len(writes[c]) <= Times(calls[c], "Read")
          /\ Times(calls[c], "Write") = Len(writes[c])
          /\ pc[c] \in BusyPcs
               => calls[c][1] = "Read" /\ writes[c] = <<>>
          /\ (pc[c] = "read" /\ calls[c] # <<>>)
               => /\ calls[c][1] = "Read"
                  /\ Last(calls[c]) = "Write"
                  /\ Len(writes[c]) = 1
          /\ (pc[c] = "done" /\ calls[c][1] = "Read")
               => Len(writes[c]) = 1 /\ ~writes[c][1].ok)
  /\ [][\A c \in Conns :
          /\ (ReadMessage(c) /\ calls[c] # <<>>)
               => Len(writes[c]) = 1 /\ Last(calls[c]) = "Write"
          /\ Len(writes'[c]) > Len(writes[c])
               => /\ writes[c] = <<>>
                  /\ pc[c] \in {"decodeErr", "resolveErr", "handlerErr", "encodeErr", "respond"}
                  /\ pc'[c] \in {"read", "done"}
                  /\ \/ Last(writes'[c]).body = response[c] /\ pc[c] = "respond"
                     \/ Last(writes'[c]).body = RawBytes(err[c]) /\ pc[c] # "respond"]_vars

\* a second message was read after the first had its one write
C18_Witness ==
  \E c \in Conns :
    /\ pc[c] = "decode" /\ prev[c] = "decode"
    /\ calls[c] = <<"Read">> /\ writes[c] = <<>>

\* C19: a session closes its connection at most once and does nothing on it
\* after the close; a session whose loop has ended has closed its
\* connection.
C19_ClosedOnceAndLast ==
  /\ [](\A c \in Conns :
          /\ closes[c] <= 1
          /\ ~usedClosed[c]
          /\ pc[c] = "done" <=> closes[c] = 1
          /\ closes[c] = 1
               => /\ Last(calls[c]) = "Close"
                  /\ Times(calls[c], "Close") = 1
                  /\ ~ENABLED handleConnection(c))
  /\ [][\A c \in Conns :
          /\ ~Open(c) => SessionState(c)' = SessionState(c)
          /\ (pc[c] \in LoopPcs /\ pc'[c] \notin LoopPcs)
               => /\ pc'[c] = "done"
                  /\ closes'[c] = closes[c] + 1
                  /\ Last(calls'[c]) = "Close"]_vars

\* a session that had answered a message ended on a failed read, closed once
C19_Witness ==
  \E c \in Conns :
    /\ pc[c] = "done" /\ closes[c] = 1
    /\ outcome[c] = "ok"
    /\ calls[c] = <<"ReadFail", "Close">>

\* C20: every write for a message, encoded response or raw error, is made
\* with the message type of the request just read.
C20_WriteUsesRequestType ==
  /\ [][\A c \in Conns :
          /\ (ReadMessage(c) /\ pc'[c] = "decode") => messageType'[c] \in env.types
          /\ (pc[c] \in BusyPcs /\ pc'[c] \in BusyPcs) => messageType'[c] = messageType[c]
          /\ Len(writes'[c]) > Len(writes[c])
               => /\ pc[c] \in BusyPcs
                  /\ Last(writes'[c]).type = messageType[c]]_vars
  /\ [](\A c \in Conns : \A i \in 1..Len(writes[c]) : writes[c][i].type \in env.types)

\* a raw error was written as a binary message
C20_Witness ==
  \E c \in Conns :
    /\ writes[c] # <<>>
    /\ Last(writes[c]).type = 2
    /\ Last(writes[c]).body.raw
    /\ Last(writes[c]).ok

\* C17: when handlers return and writes complete, every message a session
\* has read is eventually followed by a write on its connection or by the
\* close of the session; the session waits only in the read step.
C17_MessageEventuallyAnswered ==
  \A c \in Conns : (pc[c] \in BusyPcs) ~> (pc[c] \in {"read", "done"})

\* the same progress, for as long as the process is not killed by the
\* panic of RegisterService on a server built by NewServer
C17_AnsweredUnlessCrashed ==
  \A c \in Conns : (pc[c] \in BusyPcs) ~> (pc[c] \in {"read", "done"} \/ crashed)

====
